---- MODULE Spec2Model ----
(***************************************************************************)
(* A model of the Notion MCP gateway (ulrik-code/notion-mcp-server).       *)
(*                                                                         *)
(* The repository holds three revisions of the same Express program:       *)
(*   V1  src/server.js lines 1-300     SSE only, one module-level server   *)
(*   V2  src/server.js lines 302-672   SSE + POST /mcp, server factory     *)
(*   V3  src/unnamed/part_000          V2 + connection registry, 202 ack,  *)
(*                                     notifications/initialized           *)
(* The tool dispatcher (callToolHandler) is the same text in all three.    *)
(*                                                                         *)
(* JavaScript values are tagged records; a JavaScript string is a TLA+     *)
(* string, an object is an ordered list of <<key, value>> entries.         *)
(***************************************************************************)
EXTENDS Integers, Sequences, FiniteSets, TLC

VARIABLES
    proc,             \* the process: how far the module's top-level code has run
    variant,          \* which revision of the program is running
    mcp,              \* POST /mcp requests: the position of each handler and what it sent
    notionCalls,      \* the calls made on the Notion client, in order
    sseConnections,   \* V3: the Map of stored stream connections, key -> entry
    sse,              \* GET /sse requests: the position of each handler
    clock,            \* the reading of Date.now()
    messages          \* POST /message requests answered so far: frame and response

vars == <<proc, variant, mcp, notionCalls, sseConnections, sse, clock, messages>>

(***************************************************************************)
(* Bounds of the model.                                                    *)
(***************************************************************************)
MaxReqs == 2       \* POST /mcp requests in one behaviour (all may be in flight at once)
MaxConns == 2      \* GET /sse connections in one behaviour
MaxClock == 1      \* Date.now() takes the readings 0..MaxClock
MaxMessages == 2   \* POST /message requests in one behaviour

V1 == "server.js:1-300"
V2 == "server.js:302-672"
V3 == "part_000"

(***************************************************************************)
(* JavaScript values.                                                      *)
(***************************************************************************)
Undefined == [t |-> "undefined"]
Null == [t |-> "null"]
Str(s) == [t |-> "string", s |-> s]
Num(n) == [t |-> "number", n |-> n]
Bool(b) == [t |-> "boolean", b |-> b]
Arr(items) == [t |-> "array", items |-> items]
Obj(entries) == [t |-> "object", entries |-> entries]
P(k, v) == <<k, v>>

Has(o, k) == o.t = "object" /\ \E i \in 1..Len(o.entries) : o.entries[i][1] = k

\* o.k for a value that can be read (not undefined, not null)
Get(o, k) ==
    IF Has(o, k)
    THEN o.entries[CHOOSE i \in 1..Len(o.entries) : o.entries[i][1] = k][2]
    ELSE Undefined

\* reading a property of undefined or null throws a TypeError
CanRead(v) == v.t \notin {"undefined", "null"}

TypeErrorRead(v, k) ==
    "Cannot read properties of " \o v.t \o " (reading '" \o k \o "')"

Truthy(v) ==
    CASE v.t = "undefined" -> FALSE
      [] v.t = "null" -> FALSE
      [] v.t = "string" -> v.s # ""
      [] v.t = "number" -> v.n # 0
      [] v.t = "boolean" -> v.b
      [] OTHER -> TRUE

\* a || b
OrElse(a, b) == IF Truthy(a) THEN a ELSE b

\* `${v}` for the values that reach a template literal here
TemplateString(v) ==
    CASE v.t = "string" -> v.s
      [] v.t = "undefined" -> "undefined"
      [] v.t = "null" -> "null"
      [] v.t = "boolean" -> IF v.b THEN "true" ELSE "false"
      [] OTHER -> "[object Object]"

\* String.prototype.includes
Includes(s, c) ==
    \E i \in 1..(Len(s) - Len(c) + 1) : SubSeq(s, i, i + Len(c) - 1) = c

RECURSIVE Repeat(_, _)
Repeat(s, n) == IF n <= 0 THEN "" ELSE s \o Repeat(s, n - 1)

\* JSON.stringify(v, null, 2) for strings, booleans, null, arrays and objects whose
\* strings need no escaping; an entry whose value is undefined is left out
RECURSIVE Stringify(_, _)
RECURSIVE StringifyItems(_, _, _)
StringifyItems(v, depth, i) ==
    LET n == IF v.t = "array" THEN Len(v.items) ELSE Len(v.entries)
        elem == IF v.t = "array" THEN v.items[i] ELSE v.entries[i][2]
        shown == v.t = "array" \/ elem.t # "undefined"
        rest == IF i < n THEN StringifyItems(v, depth, i + 1) ELSE ""
        here == Repeat("  ", depth + 1)
                \o (IF v.t = "array" THEN "" ELSE "\"" \o v.entries[i][1] \o "\": ")
                \o (IF elem.t = "undefined" THEN "null" ELSE Stringify(elem, depth + 1))
    IN  IF ~shown THEN rest
        ELSE IF rest = "" THEN here
        ELSE here \o ",\n" \o rest

Stringify(v, depth) ==
    CASE v.t = "string" -> "\"" \o v.s \o "\""
      [] v.t = "null" -> "null"
      [] v.t = "boolean" -> IF v.b THEN "true" ELSE "false"
      [] v.t = "array" ->
            IF Len(v.items) = 0 THEN "[]"
            ELSE "[\n" \o StringifyItems(v, depth, 1) \o "\n" \o Repeat("  ", depth) \o "]"
      [] v.t = "object" ->
            LET body == IF Len(v.entries) = 0 THEN "" ELSE StringifyItems(v, depth, 1)
            IN  IF body = "" THEN "{}"
                ELSE "{\n" \o body \o "\n" \o Repeat("  ", depth) \o "}"
      [] OTHER -> "null"

\* what res.json(v) puts on the wire, read back: entries whose value is undefined are gone
RECURSIVE Json(_)
RECURSIVE JsonEntries(_, _)
RECURSIVE JsonItems(_, _)
JsonEntries(es, i) ==
    IF i > Len(es) THEN <<>>
    ELSE IF es[i][2].t = "undefined" THEN JsonEntries(es, i + 1)
    ELSE <<P(es[i][1], Json(es[i][2]))>> \o JsonEntries(es, i + 1)

JsonItems(items, i) ==
    IF i > Len(items) THEN <<>>
    ELSE <<IF items[i].t = "undefined" THEN Null ELSE Json(items[i])>> \o JsonItems(items, i + 1)

Json(v) ==
    CASE v.t = "object" -> Obj(JsonEntries(v.entries, 1))
      [] v.t = "array" -> Arr(JsonItems(v.items, 1))
      [] OTHER -> v

(***************************************************************************)
(* The tool registry: listToolsHandler.                                    *)
(***************************************************************************)
Prop(type, description) == Obj(<<P("type", Str(type)), P("description", Str(description))>>)

\* a catalog without the two database tools
listToolsHandlerFourTools ==
    Obj(<<P("tools", Arr(<<
        Obj(<<P("name", Str("notion_search")),
              P("inputSchema", Obj(<<P("required", Arr(<<Str("query")>>))>>))>>),
        Obj(<<P("name", Str("notion_create_page")),
              P("inputSchema", Obj(<<P("required", Arr(<<Str("parent_id"), Str("title")>>))>>))>>),
        Obj(<<P("name", Str("notion_get_page")),
              P("inputSchema", Obj(<<P("required", Arr(<<Str("page_id")>>))>>))>>),
        Obj(<<P("name", Str("notion_update_page")),
              P("inputSchema", Obj(<<P("required", Arr(<<Str("page_id"), Str("properties")>>))>>))>>)
    >>))>>)

listToolsHandler ==
    Obj(<<P("tools", Arr(<<
        Obj(<<P("name", Str("notion_search")),
              P("description", Str("Search Notion pages and databases")),
              P("inputSchema", Obj(<<
                  P("type", Str("object")),
                  P("properties", Obj(<<
                      P("query", Prop("string", "Search query")),
                      P("filter", Prop("object", "Optional filter object"))>>)),
                  P("required", Arr(<<Str("query")>>))>>))>>),
        Obj(<<P("name", Str("notion_create_page")),
              P("description", Str("Create a new page in Notion")),
              P("inputSchema", Obj(<<
                  P("type", Str("object")),
                  P("properties", Obj(<<
                      P("parent_id", Prop("string", "Parent page or database ID")),
                      P("title", Prop("string", "Page title")),
                      P("content", Prop("string", "Page content (optional)"))>>)),
                  P("required", Arr(<<Str("parent_id"), Str("title")>>))>>))>>),
        Obj(<<P("name", Str("notion_get_page")),
              P("description", Str("Get a Notion page by ID")),
              P("inputSchema", Obj(<<
                  P("type", Str("object")),
                  P("properties", Obj(<<
                      P("page_id", Prop("string", "Page ID"))>>)),
                  P("required", Arr(<<Str("page_id")>>))>>))>>),
        Obj(<<P("name", Str("notion_update_page")),
              P("description", Str("Update a Notion page")),
              P("inputSchema", Obj(<<
                  P("type", Str("object")),
                  P("properties", Obj(<<
                      P("page_id", Prop("string", "Page ID")),
                      P("properties", Prop("object", "Page properties to update"))>>)),
                  P("required", Arr(<<Str("page_id"), Str("properties")>>))>>))>>),
        Obj(<<P("name", Str("notion_list_databases")),
              P("description", Str("List all databases the integration has access to")),
              P("inputSchema", Obj(<<
                  P("type", Str("object")),
                  P("properties", Obj(<<>>))>>))>>),
        Obj(<<P("name", Str("notion_query_database")),
              P("description", Str("Query a database with filters and sorts")),
              P("inputSchema", Obj(<<
                  P("type", Str("object")),
                  P("properties", Obj(<<
                      P("database_id", Prop("string", "Database ID")),
                      P("filter", Prop("object", "Optional filter object")),
                      P("sorts", Prop("array", "Optional sort array"))>>)),
                  P("required", Arr(<<Str("database_id")>>))>>))>>)
    >>))>>)

\* the names the registry lists, in order
ToolNames ==
    LET tools == Get(listToolsHandler, "tools").items
    IN  [i \in 1..Len(tools) |-> Get(tools[i], "name").s]

Registered(name) == name.t = "string" /\ \E i \in 1..Len(ToolNames) : ToolNames[i] = name.s

(***************************************************************************)
(* The tool dispatcher: callToolHandler.                                   *)
(*                                                                         *)
(* callToolHandlerStart is the handler up to its first await. It ends in   *)
(*   fault  an exception thrown before the try block: the handler's        *)
(*          promise rejects                                                *)
(*   throw  an exception thrown inside the try block before any call       *)
(*   call   one call made on the Notion client, the handler suspended      *)
(***************************************************************************)
Fault(message) == [k |-> "fault", message |-> message]
Throw(message) == [k |-> "throw", message |-> message]
Call(op, params) == [k |-> "call", op |-> op, params |-> params]

ParentIdLength == 36

\* the rule of the earlier revisions: a hyphen alone makes a database parent
ParentHyphenOnly(parent_id) ==
    IF Includes(parent_id.s, "-")
    THEN Obj(<<P("database_id", parent_id)>>)
    ELSE Obj(<<P("page_id", parent_id)>>)

\* const parent = args.parent_id.includes('-') && args.parent_id.length === 36 ? ... : ...
Parent(parent_id) ==
    IF Includes(parent_id.s, "-") /\ Len(parent_id.s) = ParentIdLength
    THEN Obj(<<P("database_id", parent_id)>>)
    ELSE Obj(<<P("page_id", parent_id)>>)

\* a block for every content that is given, the empty string included
ChildrenWhenDefined(content) ==
    IF content.t # "undefined"
    THEN Arr(<<Obj(<<
            P("object", Str("block")),
            P("type", Str("paragraph")),
            P("paragraph", Obj(<<
                P("rich_text", Arr(<<Obj(<<P("text", Obj(<<P("content", content)>>))>>)>>))>>))>>)>>)
    ELSE Arr(<<>>)

\* children: args.content ? [ paragraph block ] : []
Children(content) ==
    IF Truthy(content)
    THEN Arr(<<Obj(<<
            P("object", Str("block")),
            P("type", Str("paragraph")),
            P("paragraph", Obj(<<
                P("rich_text", Arr(<<Obj(<<P("text", Obj(<<P("content", content)>>))>>)>>))>>))>>)>>)
    ELSE Arr(<<>>)

CreatePage(args) ==
    LET parent_id == Get(args, "parent_id")
    IN  IF ~CanRead(parent_id) THEN Throw(TypeErrorRead(parent_id, "includes"))
        ELSE IF parent_id.t # "string"
        THEN Throw("args.parent_id.includes is not a function")
        ELSE Call("pages.create", Obj(<<
                P("parent", Parent(parent_id)),
                P("properties", Obj(<<
                    P("title", Obj(<<
                        P("title", Arr(<<Obj(<<
                            P("text", Obj(<<P("content", Get(args, "title"))>>))>>)>>))>>))>>)),
                P("children", Children(Get(args, "content")))>>))

\* a dispatcher whose default case falls back to a search for the name
SwitchDefaultSearches(name) == Call("search", Obj(<<P("query", name)>>))

\* default: throw new Error(`Unknown tool: ${name}`)
SwitchDefault(name) == Throw("Unknown tool: " \o TemplateString(name))

\* the switch on name, inside the try block
Switch(name, args) ==
    CASE name = Str("notion_search") ->
            IF ~CanRead(args) THEN Throw(TypeErrorRead(args, "query"))
            ELSE Call("search", Obj(<<
                    P("query", Get(args, "query")),
                    P("filter", OrElse(Get(args, "filter"), Undefined))>>))
      [] name = Str("notion_create_page") ->
            IF ~CanRead(args) THEN Throw(TypeErrorRead(args, "parent_id"))
            ELSE CreatePage(args)
      [] name = Str("notion_get_page") ->
            IF ~CanRead(args) THEN Throw(TypeErrorRead(args, "page_id"))
            ELSE Call("pages.retrieve", Obj(<<P("page_id", Get(args, "page_id"))>>))
      [] name = Str("notion_update_page") ->
            IF ~CanRead(args) THEN Throw(TypeErrorRead(args, "page_id"))
            ELSE Call("pages.update", Obj(<<
                    P("page_id", Get(args, "page_id")),
                    P("properties", Get(args, "properties"))>>))
      [] name = Str("notion_list_databases") ->
            Call("search", Obj(<<
                P("filter", Obj(<<
                    P("property", Str("object")),
                    P("value", Str("database"))>>))>>))
      [] name = Str("notion_query_database") ->
            IF ~CanRead(args) THEN Throw(TypeErrorRead(args, "database_id"))
            ELSE Call("databases.query", Obj(<<
                    P("database_id", Get(args, "database_id")),
                    P("filter", OrElse(Get(args, "filter"), Undefined)),
                    P("sorts", OrElse(Get(args, "sorts"), Undefined))>>))
      [] OTHER -> SwitchDefault(name)

callToolHandlerStart(request) ==
    LET params == Get(request, "params")
    IN  IF ~CanRead(params)
        THEN Fault("Cannot destructure property 'name' of 'request.params' as it is "
                   \o params.t \o ".")
        ELSE Switch(Get(params, "name"), Get(params, "arguments"))

\* return { content: [{ type: 'text', text: JSON.stringify(result, null, 2) }] }
SuccessResult(result) ==
    Obj(<<P("content", Arr(<<Obj(<<
            P("type", Str("text")),
            P("text", Str(Stringify(result, 0)))>>)>>))>>)

\* catch (error): return { content: [{ type: 'text', text: `Error: ${error.message}` }], isError: true }
ErrorResult(message) ==
    Obj(<<P("content", Arr(<<Obj(<<
            P("type", Str("text")),
            P("text", Str("Error: " \o message))>>)>>)),
          P("isError", Bool(TRUE))>>)

(***************************************************************************)
(* Startup: the module's top-level code, the same in the three revisions.  *)
(***************************************************************************)
\* pc: "start" before the check of the key, "configured" once the Notion client
\* exists, "listening" once app.listen was called, "exited" after process.exit
Proc(pc, key, notion, listening, exitCode) ==
    [pc |-> pc, NOTION_API_KEY |-> key, notion |-> notion, listening |-> listening,
     exitCode |-> exitCode]

\* no exit code: the process is alive
Alive == -1

\* a check that lets the empty string through
KeyMissingWhenUndefined(key) == key = Undefined

\* if (!NOTION_API_KEY)
KeyMissing(key) == ~Truthy(key)

\* if (!NOTION_API_KEY) { console.error(...); process.exit(1); }
\* const notion = new Client({ auth: NOTION_API_KEY });
CheckKey ==
    /\ proc.pc = "start"
    /\ proc' = IF KeyMissing(proc.NOTION_API_KEY)
               THEN Proc("exited", proc.NOTION_API_KEY, FALSE, FALSE, 1)
               ELSE Proc("configured", proc.NOTION_API_KEY, TRUE, FALSE, Alive)
    /\ UNCHANGED <<variant, mcp, notionCalls, sseConnections, sse, clock, messages>>

\* app.listen(PORT, '0.0.0.0', ...)
Listen ==
    /\ proc.pc = "configured"
    /\ proc' = [proc EXCEPT !.pc = "listening", !.listening = TRUE]
    /\ UNCHANGED <<variant, mcp, notionCalls, sseConnections, sse, clock, messages>>

(***************************************************************************)
(* The JSON-RPC adapter: app.post('/mcp'), in V2 and V3.                   *)
(***************************************************************************)
MethodNotFound == -32601
InternalError == -32603

Response(status, body) == [status |-> status, body |-> Json(body)]

ProtocolVersion(v) == IF v = V3 THEN "2025-03-26" ELSE "2024-11-05"

\* res.json({ jsonrpc: '2.0', id: request.id, result })
ResultResponse(request, result) ==
    Response(200, Obj(<<
        P("jsonrpc", Str("2.0")),
        P("id", Get(request, "id")),
        P("result", result)>>))

\* res.status(status).json({ jsonrpc: '2.0', id, error: { code, message } })
ErrorResponse(status, id, code, message) ==
    Response(status, Obj(<<
        P("jsonrpc", Str("2.0")),
        P("id", id),
        P("error", Obj(<<P("code", Num(code)), P("message", Str(message))>>))>>))

InitializeResult(v) ==
    Obj(<<
        P("protocolVersion", Str(ProtocolVersion(v))),
        P("capabilities", Obj(<<P("tools", Obj(<<>>))>>)),
        P("serverInfo", Obj(<<
            P("name", Str("notion-mcp-server")),
            P("version", Str("1.0.0"))>>))>>)

\* an unrecognized method reported as an internal error
MethodNotFoundAsInternalError(request) ==
    ErrorResponse(500, Get(request, "id"), InternalError,
                  "Method not found: " \o TemplateString(Get(request, "method")))

\* the else branch: res.status(400).json({ ..., error: { code: -32601, ... } })
MethodNotFoundResponse(request) ==
    ErrorResponse(400, Get(request, "id"), MethodNotFound,
                  "Method not found: " \o TemplateString(Get(request, "method")))

\* a catch block that answers without the request's id
InternalErrorResponseNullId(request, message) ==
    ErrorResponse(500, Null, InternalError, message)

\* the catch block of the route: res.status(500).json({ ..., id: req.body.id, error: { code: -32603, ... } })
InternalErrorResponse(request, message) ==
    ErrorResponse(500, Get(request, "id"), InternalError, message)

\* else if (request.method === 'notifications/initialized'): res.status(200).json({ received: true })
NotificationResponse == Response(200, Obj(<<P("received", Bool(TRUE))>>))

\* a request slot: the handler's position, its request, what callToolHandler returned
\* and the responses written
Slot(pc, request, result, responses) ==
    [pc |-> pc, request |-> request, result |-> result, responses |-> responses]

IdleSlot == Slot("idle", Undefined, Undefined, <<>>)

\* the tools/call branch up to the first await that leaves the event loop
McpToolsCall(request) ==
    LET start == callToolHandlerStart(request)
    IN  CASE start.k = "fault" ->
                Slot("done", request, Undefined,
                     <<InternalErrorResponse(request, start.message)>>)
          [] start.k = "throw" ->
                Slot("done", request, ErrorResult(start.message),
                     <<ResultResponse(request, ErrorResult(start.message))>>)
          [] OTHER -> Slot("awaiting", request, Undefined, <<>>)

\* req.body is undefined: request.method throws inside the try block, and the catch
\* block, reading req.body.id, throws again: the handler's promise rejects and the
\* handler writes no response
McpEscaped(request) == Slot("escaped", request, Undefined, <<>>)

\* the route handler up to the first await that leaves the event loop
McpHandle(v, request) ==
    LET method == Get(request, "method")
    IN  CASE ~CanRead(request) -> McpEscaped(request)
          [] method = Str("initialize") ->
                Slot("done", request, Undefined,
                     <<ResultResponse(request, InitializeResult(v))>>)
          [] v = V3 /\ method = Str("notifications/initialized") ->
                Slot("done", request, Undefined, <<NotificationResponse>>)
          [] method = Str("tools/list") ->
                Slot("done", request, Undefined,
                     <<ResultResponse(request, listToolsHandler)>>)
          [] method = Str("tools/call") -> McpToolsCall(request)
          [] OTHER ->
                Slot("done", request, Undefined, <<MethodNotFoundResponse(request)>>)

\* an entry of the Notion client's call log
Pending == [k |-> "pending"]
Resolved(payload) == [k |-> "resolved", payload |-> payload]
Rejected(message) == [k |-> "rejected", message |-> message]

\* a client that shares one upstream call among identical calls in flight
McpCallsDeduplicated(r, request) ==
    LET start == callToolHandlerStart(request)
    IN  IF /\ Get(request, "method") = Str("tools/call")
           /\ start.k = "call"
           /\ ~\E i \in 1..Len(notionCalls) :
                 /\ notionCalls[i].op = start.op
                 /\ notionCalls[i].params = start.params
                 /\ notionCalls[i].outcome = Pending
        THEN <<[req |-> r, op |-> start.op, params |-> start.params, outcome |-> Pending]>>
        ELSE <<>>

\* the calls a request makes on the Notion client before it suspends
McpCalls(r, request) ==
    LET start == callToolHandlerStart(request)
    IN  IF Get(request, "method") = Str("tools/call") /\ start.k = "call"
        THEN <<[req |-> r, op |-> start.op, params |-> start.params, outcome |-> Pending]>>
        ELSE <<>>

\* the call request r is waiting for
PendingCall(r) ==
    CHOOSE i \in 1..Len(notionCalls) :
        notionCalls[i].req = r /\ notionCalls[i].outcome = Pending

\* callToolHandler after the awaited call resolved, and the route's res.json
McpResolved(request, payload) ==
    Slot("done", request, SuccessResult(payload),
         <<ResultResponse(request, SuccessResult(payload))>>)

\* a dispatcher without the catch block: the rejection reaches the route's catch
McpRejectedPropagates(request, message) ==
    Slot("done", request, Undefined, <<InternalErrorResponse(request, message)>>)

\* callToolHandler's catch block after the awaited call rejected, and the route's res.json
McpRejected(request, message) ==
    Slot("done", request, ErrorResult(message),
         <<ResultResponse(request, ErrorResult(message))>>)

HasMcpRoute(v) == v \in {V2, V3}

\* POST /mcp with body `request` arrives and runs to its response or to the await
\* of the Notion call
McpPost(r, request) ==
    /\ proc.listening
    /\ HasMcpRoute(variant)
    /\ mcp[r].pc = "idle"
    /\ \A q \in 1..(r - 1) : mcp[q].pc # "idle"
    /\ mcp' = [mcp EXCEPT ![r] = McpHandle(variant, request)]
    /\ notionCalls' = notionCalls \o McpCalls(r, request)
    /\ UNCHANGED <<proc, variant, sseConnections, sse, clock, messages>>

\* the Notion call of request r resolves with `payload`
NotionResolve(r, payload) ==
    /\ mcp[r].pc = "awaiting"
    /\ mcp' = [mcp EXCEPT ![r] = McpResolved(mcp[r].request, payload)]
    /\ notionCalls' = [notionCalls EXCEPT ![PendingCall(r)].outcome = Resolved(payload)]
    /\ UNCHANGED <<proc, variant, sseConnections, sse, clock, messages>>

\* the Notion call of request r rejects with an Error whose message is `message`
NotionReject(r, message) ==
    /\ mcp[r].pc = "awaiting"
    /\ mcp' = [mcp EXCEPT ![r] = McpRejected(mcp[r].request, message)]
    /\ notionCalls' = [notionCalls EXCEPT ![PendingCall(r)].outcome = Rejected(message)]
    /\ UNCHANGED <<proc, variant, sseConnections, sse, clock, messages>>

(***************************************************************************)
(* The streaming adapter: app.get('/sse') and app.post('/message').        *)
(***************************************************************************)
\* Number.prototype.toString for a non-negative integer
RECURSIVE Decimal(_)
Decimal(n) ==
    IF n < 10 THEN SubSeq("0123456789", n + 1, n + 1)
    ELSE Decimal(n \div 10) \o SubSeq("0123456789", (n % 10) + 1, (n % 10) + 1)

\* the module-level mcpServer of V1; a server made by createMCPServer is numbered by
\* the request that made it
SharedServer == 0

\* const mcpServer = createMCPServer(): a new Server on every call (V2, V3);
\* V1 has one mcpServer for the whole process
createMCPServer(v, c) == IF v = V1 THEN SharedServer ELSE c

\* const connectionId = Date.now().toString()
connectionId(now) == Decimal(now)

HasRegistry(v) == v = V3

Conn(pc, closed, id, server) ==
    [pc |-> pc, closed |-> closed, connectionId |-> id, server |-> server]

NoConn == Conn("none", FALSE, "", SharedServer)

\* Map.prototype.set
MapSet(map, key, value) ==
    [k \in DOMAIN map \cup {key} |-> IF k = key THEN value ELSE map[k]]

\* Map.prototype.delete
MapDelete(map, key) == [k \in DOMAIN map \ {key} |-> map[k]]

\* GET /sse arrives: the handler runs up to `await mcpServer.connect(transport)`.
\* The transport of request c is numbered c.
SseOpen(c) ==
    /\ proc.listening
    /\ sse[c].pc = "none"
    /\ \A d \in 1..(c - 1) : sse[d].pc # "none"
    /\ sse' = [sse EXCEPT ![c] =
                Conn("connecting", FALSE,
                     IF HasRegistry(variant) THEN connectionId(clock) ELSE "",
                     createMCPServer(variant, c))]
    /\ sseConnections' =
            IF HasRegistry(variant)
            THEN MapSet(sseConnections, connectionId(clock),
                        [transport |-> c, server |-> createMCPServer(variant, c)])
            ELSE sseConnections
    /\ UNCHANGED <<proc, variant, mcp, notionCalls, clock, messages>>

\* connect resolves: the handler runs to its end; in V3 it registers the 'close' listener
SseConnected(c) ==
    /\ sse[c].pc = "connecting"
    /\ sse' = [sse EXCEPT ![c].pc = "connected"]
    /\ UNCHANGED <<proc, variant, mcp, notionCalls, sseConnections, clock, messages>>

\* connect rejects: the handler ends there, no listener is registered
SseConnectFailed(c) ==
    /\ sse[c].pc = "connecting"
    /\ sse' = [sse EXCEPT ![c].pc = "failed"]
    /\ UNCHANGED <<proc, variant, mcp, notionCalls, sseConnections, clock, messages>>

\* a 'close' listener exists only once the V3 handler has run past the await
Listening(v, conn) == HasRegistry(v) /\ conn.pc = "connected"

\* the client of connection c disconnects: req emits 'close' once, and the listener,
\* if registered by now, runs sseConnections.delete(connectionId)
ClientClose(c) ==
    /\ sse[c].pc # "none"
    /\ ~sse[c].closed
    /\ sse' = [sse EXCEPT ![c].closed = TRUE]
    /\ sseConnections' =
            IF Listening(variant, sse[c])
            THEN MapDelete(sseConnections, sse[c].connectionId)
            ELSE sseConnections
    /\ UNCHANGED <<proc, variant, mcp, notionCalls, clock, messages>>

\* a millisecond passes
Tick ==
    /\ clock < MaxClock
    /\ clock' = clock + 1
    /\ UNCHANGED <<proc, variant, mcp, notionCalls, sseConnections, sse, messages>>

\* the acknowledgement of the earlier revisions in every revision
MessageResponseAlways200(v) == Response(200, Undefined)

\* V3: res.status(202).json({ received: true }); V1, V2: res.status(200).end()
MessageResponse(v) ==
    IF v = V3
    THEN Response(202, Obj(<<P("received", Bool(TRUE))>>))
    ELSE Response(200, Undefined)

\* POST /message with body `frame` arrives and is answered
Message(frame) ==
    /\ proc.listening
    /\ Len(messages) < MaxMessages
    /\ messages' = Append(messages, [frame |-> frame, response |-> MessageResponse(variant)])
    /\ UNCHANGED <<proc, variant, mcp, notionCalls, sseConnections, sse, clock>>

(***************************************************************************)
(* Inputs.                                                                 *)
(***************************************************************************)
Request(id, method, params) ==
    Json(Obj(<<P("jsonrpc", Str("2.0")), P("id", id), P("method", method),
               P("params", params)>>))

ToolCall(name, args) == Obj(<<P("name", name), P("arguments", args)>>)

\* what the Notion client answers
PageObject == Obj(<<P("object", Str("page")), P("id", Str("abc123"))>>)
ListObject == Obj(<<P("object", Str("list")), P("results", Arr(<<>>)),
                    P("has_more", Bool(FALSE))>>)
Payloads == {PageObject, ListObject}
ErrorMessages == {"Not found", "API token is invalid."}

Uuid == "59833787-2cf9-4fdf-8782-e53db20768a5"

ParentIds ==
    { Str(Uuid),                                       \* 36 characters, hyphens
      Str("59833787a2cf9b4fdfc8782de53db20768a5"),     \* 36 characters, no hyphen
      Str("notes-for-the-design-review-in-april"),     \* 36 characters, hyphens, no UUID
      Str("59833787-2cf9-4fdf-8782-e53db20768a"),      \* 35 characters, hyphens
      Str("59833787-2cf9-4fdf-8782-e53db20768a5b"),    \* 37 characters, hyphens
      Str("598337872cf94fdf8782e53db20768a5"),         \* 32 characters, no hyphen
      Str("-"),
      Str(""),
      Num(36),
      Undefined }

Contents == {Undefined, Str(""), Str("hello"), Str("0")}

CreatePageBags ==
    { Json(Obj(<<P("parent_id", p), P("title", t), P("content", c)>>)) :
        p \in ParentIds, t \in {Str("Roadmap"), Undefined}, c \in Contents }

FullBag ==
    Obj(<<P("query", Str("notes")),
          P("page_id", Str("abc123")),
          P("database_id", Str(Uuid)),
          P("properties", Obj(<<P("Status", Obj(<<P("select", Obj(<<P("name", Str("Done"))>>))>>))>>)),
          P("filter", Obj(<<P("property", Str("object")), P("value", Str("page"))>>))>>)

GenericBags == {Undefined, Null, Obj(<<>>), FullBag}

UnknownNames == {Str("unknown_tool"), Str(""), Str("Notion_Search"), Undefined}

RegisteredNames == {Str(ToolNames[i]) : i \in 1..Len(ToolNames)}

\* the tools/call requests of the dispatcher's specification
ToolRequests ==
    { Request(Num(1), Str("tools/call"), ToolCall(n, a)) :
        n \in RegisteredNames \cup UnknownNames, a \in GenericBags }
    \cup { Request(Num(1), Str("tools/call"), ToolCall(Str("notion_create_page"), a)) :
            a \in CreatePageBags }

Ids == {Num(1), Num(2), Undefined}

Methods == {Str("initialize"), Str("notifications/initialized"), Str("tools/list"),
            Str("resources/list"), Undefined}

\* the requests of the adapter's specification
McpRequests ==
    { Request(i, m, Undefined) : i \in Ids, m \in Methods \cup {Str("tools/call")} }
    \cup { Request(i, Str("tools/call"), p) : i \in Ids,
            p \in { ToolCall(Str("notion_get_page"), Obj(<<P("page_id", Str("abc123"))>>)),
                    ToolCall(Str("unknown_tool"), Obj(<<>>)) } }

\* the frames posted to /message
Frames ==
    { Request(Num(1), Str("tools/call"),
              ToolCall(Str("notion_get_page"), Obj(<<P("page_id", Str("abc123"))>>))),
      Obj(<<>>) }

(***************************************************************************)
(* Specifications.                                                         *)
(***************************************************************************)
\* what process.env.NOTION_API_KEY can be at startup
EnvKeys == {Undefined, Str(""), Str("secret_0123456789")}

\* the server up and listening, with a key
Init ==
    /\ proc = Proc("listening", Str("secret_0123456789"), TRUE, TRUE, Alive)
    /\ variant \in {V1, V2, V3}
    /\ mcp = [r \in 1..MaxReqs |-> IdleSlot]
    /\ notionCalls = <<>>
    /\ sseConnections = <<>>
    /\ sse = [c \in 1..MaxConns |-> NoConn]
    /\ clock = 0
    /\ messages = <<>>

\* the JSON-RPC adapter, with up to MaxReqs requests in flight at once
Next ==
    \/ \E r \in 1..MaxReqs, request \in McpRequests : McpPost(r, request)
    \/ \E r \in 1..MaxReqs, payload \in Payloads : NotionResolve(r, payload)
    \/ \E r \in 1..MaxReqs, message \in ErrorMessages : NotionReject(r, message)

Spec == Init /\ [][Next]_vars

\* the dispatcher on its own: one tools/call request, over every name and argument bag
NextTool ==
    \/ \E request \in ToolRequests : McpPost(1, request)
    \/ \E payload \in Payloads : NotionResolve(1, payload)
    \/ \E message \in ErrorMessages : NotionReject(1, message)

SpecTool == Init /\ [][NextTool]_vars

\* the streaming adapter: stream connections, the clock and the /message endpoint
NextSse ==
    \/ \E c \in 1..MaxConns : SseOpen(c)
    \/ \E c \in 1..MaxConns : SseConnected(c)
    \/ \E c \in 1..MaxConns : SseConnectFailed(c)
    \/ \E c \in 1..MaxConns : ClientClose(c)
    \/ Tick
    \/ \E frame \in Frames : Message(frame)

SpecSse == Init /\ [][NextSse]_vars

\* what req.body is when the request has no body: {} when the body parser supplies
\* the default, undefined when it leaves req.body unset
MissingBodies == {Obj(<<>>), Undefined}

\* the JSON-RPC adapter with the requests that have no body added
NextFault ==
    \/ \E r \in 1..MaxReqs, request \in McpRequests \cup MissingBodies : McpPost(r, request)
    \/ \E r \in 1..MaxReqs, payload \in Payloads : NotionResolve(r, payload)
    \/ \E r \in 1..MaxReqs, message \in ErrorMessages : NotionReject(r, message)

SpecFault == Init /\ [][NextFault]_vars

\* the process from its first line, with any key, and the requests it then serves
InitBoot ==
    /\ proc \in {Proc("start", key, FALSE, FALSE, Alive) : key \in EnvKeys}
    /\ variant \in {V1, V2, V3}
    /\ mcp = [r \in 1..MaxReqs |-> IdleSlot]
    /\ notionCalls = <<>>
    /\ sseConnections = <<>>
    /\ sse = [c \in 1..MaxConns |-> NoConn]
    /\ clock = 0
    /\ messages = <<>>

NextBoot ==
    \/ CheckKey
    \/ Listen
    \/ \E request \in McpRequests : McpPost(1, request)
    \/ \E payload \in Payloads : NotionResolve(1, payload)
    \/ \E message \in ErrorMessages : NotionReject(1, message)
    \/ SseOpen(1)
    \/ \E frame \in Frames : Message(frame)

SpecBoot == InitBoot /\ [][NextBoot]_vars

(***************************************************************************)
(* Views of the state used by the properties.                              *)
(***************************************************************************)
Used(r) == mcp[r].pc # "idle"
MethodOf(r) == Get(mcp[r].request, "method")
IdOf(r) == Get(mcp[r].request, "id")
ParamsOf(r) == Get(mcp[r].request, "params")
NameOf(r) == Get(ParamsOf(r), "name")
ArgsOf(r) == Get(ParamsOf(r), "arguments")

\* request r reached the dispatcher's switch
Dispatched(r) == Used(r) /\ MethodOf(r) = Str("tools/call") /\ CanRead(ParamsOf(r))

\* the calls made on the Notion client on behalf of request r
CallsOf(r) == {i \in 1..Len(notionCalls) : notionCalls[i].req = r}

\* result.content[0].text
TextOf(result) == Get(Get(result, "content").items[1], "text")

RecognizedMethods ==
    {Str("initialize"), Str("notifications/initialized"), Str("tools/list"), Str("tools/call")}

(***************************************************************************)
(* Properties.                                                             *)
(***************************************************************************)

\* C1: a tools/call whose name is not one of the six registered names returns, whatever
\* its arguments, a result with isError true and the text "Error: Unknown tool: <name>"
\* (the message "Unknown tool: <name>" behind the handler's "Error: " prefix), and no
\* call is made on the Notion client.
C1_UnknownToolIsErrorWithoutCall ==
    \A r \in 1..MaxReqs :
        (Dispatched(r) /\ ~Registered(NameOf(r))) =>
            /\ mcp[r].pc = "done"
            /\ Get(mcp[r].result, "isError") = Bool(TRUE)
            /\ TextOf(mcp[r].result)
                 = Str("Error: Unknown tool: " \o TemplateString(NameOf(r)))
            /\ CallsOf(r) = {}
            /\ notionCalls = <<>>

C1_Witness ==
    \E r \in 1..MaxReqs :
        /\ Dispatched(r)
        /\ NameOf(r) = Str("unknown_tool")
        /\ ArgsOf(r) = FullBag
        /\ TextOf(mcp[r].result) = Str("Error: Unknown tool: unknown_tool")

\* C2 (as claimed): every tools/call with a registered name makes exactly one call on
\* the Notion client, whatever the argument bag, a missing required argument or a
\* missing bag included.
C2_RegisteredToolCallsExactlyOnce ==
    \A r \in 1..MaxReqs :
        (Dispatched(r) /\ Registered(NameOf(r))) => Cardinality(CallsOf(r)) = 1

\* C3: when the Notion call of a request rejects with message m, the handler returns a
\* result with isError true and text "Error: " followed by m, and POST /mcp answers
\* once, with HTTP 200 and that result, without a JSON-RPC error object.
C3_RejectionIsInBandError ==
    \A i \in 1..Len(notionCalls) :
        LET call == notionCalls[i]
            slot == mcp[call.req]
        IN  call.outcome.k = "rejected" =>
                /\ slot.pc = "done"
                /\ Get(slot.result, "isError") = Bool(TRUE)
                /\ TextOf(slot.result) = Str("Error: " \o call.outcome.message)
                /\ Len(slot.responses) = 1
                /\ slot.responses[1].status = 200
                /\ Get(slot.responses[1].body, "result") = slot.result
                /\ ~Has(slot.responses[1].body, "error")
                /\ Get(slot.responses[1].body, "id") = Get(slot.request, "id")

C3_Witness ==
    \E i \in 1..Len(notionCalls) :
        /\ notionCalls[i].outcome = Rejected("Not found")
        /\ notionCalls[i].op = "pages.retrieve"
        /\ TextOf(Get(mcp[notionCalls[i].req].responses[1].body, "result"))
             = Str("Error: Not found")

\* C4: a notion_create_page call whose parent_id is a string is sent with parent
\* {database_id: parent_id} exactly when parent_id has 36 characters and contains a
\* hyphen, and with parent {page_id: parent_id} in every other case.
C4_ParentRouting ==
    \A r \in 1..MaxReqs :
        (Dispatched(r) /\ NameOf(r) = Str("notion_create_page")
            /\ CanRead(ArgsOf(r)) /\ Get(ArgsOf(r), "parent_id").t = "string") =>
            LET parent_id == Get(ArgsOf(r), "parent_id")
                hyphen == \E i \in 1..Len(parent_id.s) : SubSeq(parent_id.s, i, i) = "-"
            IN  /\ Cardinality(CallsOf(r)) = 1
                /\ \A i \in CallsOf(r) :
                    /\ notionCalls[i].op = "pages.create"
                    /\ Get(notionCalls[i].params, "parent") =
                         IF Len(parent_id.s) = 36 /\ hyphen
                         THEN Obj(<<P("database_id", parent_id)>>)
                         ELSE Obj(<<P("page_id", parent_id)>>)

C4_Witness ==
    \E i \in 1..Len(notionCalls) :
        /\ notionCalls[i].op = "pages.create"
        /\ Get(notionCalls[i].params, "parent") = Obj(<<P("database_id", Str(Uuid))>>)

\* C5: a notion_create_page call carries no body block when content is absent or the
\* empty string, and exactly one block, a paragraph whose only rich-text run has the
\* content as its text, when content is a non-empty string.
C5_ContentBlocks ==
    \A i \in 1..Len(notionCalls) :
        notionCalls[i].op = "pages.create" =>
            LET content == Get(ArgsOf(notionCalls[i].req), "content")
                children == Get(notionCalls[i].params, "children")
            IN  /\ children.t = "array"
                /\ (content = Undefined \/ content = Str("")) => children.items = <<>>
                /\ (content.t = "string" /\ content.s # "") =>
                    /\ Len(children.items) = 1
                    /\ Get(children.items[1], "type") = Str("paragraph")
                    /\ Len(Get(Get(children.items[1], "paragraph"), "rich_text").items) = 1
                    /\ Get(Get(Get(Get(children.items[1], "paragraph"), "rich_text").items[1],
                               "text"), "content") = content

C5_Witness ==
    \E i \in 1..Len(notionCalls) :
        /\ notionCalls[i].op = "pages.create"
        /\ Get(ArgsOf(notionCalls[i].req), "content") = Str("hello")
        /\ Len(Get(notionCalls[i].params, "children").items) = 1

C7_UnrecognizedMethod ==
    \A r \in 1..MaxReqs :
        (Used(r) /\ MethodOf(r) \notin RecognizedMethods) =>
            /\ mcp[r].pc = "done"
            /\ Len(mcp[r].responses) = 1
            /\ Get(Get(mcp[r].responses[1].body, "error"), "code") = Num(-32601)
            /\ ~Has(mcp[r].responses[1].body, "result")
            /\ CallsOf(r) = {}

C7_Witness ==
    \E r, q \in 1..MaxReqs :
        /\ Used(r) /\ MethodOf(r) = Undefined
        /\ Get(Get(mcp[r].responses[1].body, "error"), "code") = Num(-32601)
        /\ Used(q) /\ MethodOf(q) = Str("resources/list")
        /\ Get(Get(mcp[q].responses[1].body, "error"), "message")
             = Str("Method not found: resources/list")

\* a stream connection whose transport was connected, so that its GET /sse handler has
\* run to its end, and whose client has disconnected
Finished(c) == sse[c].pc = "connected" /\ sse[c].closed

\* the keys under which the registry holds the entry made for connection c
EntriesOf(c) == {k \in DOMAIN sseConnections : sseConnections[k].transport = c}

\* C8 (as claimed): once the client of a stream connection has disconnected and the
\* connection's handler has nothing left to run, the registry holds no entry for that
\* connection, also when the disconnect came while the server was still connecting
\* the transport.
C8_ClosedConnectionsLeaveNoEntry ==
    \A c \in 1..MaxConns :
        (HasRegistry(variant) /\ Finished(c)) => EntriesOf(c) = {}

\* C9 (as claimed): any two stream connections are stored under different
\* identifiers, also when they are opened at the same clock reading.
C9_IdentifiersDistinguishConnections ==
    \A c, d \in 1..MaxConns :
        (HasRegistry(variant) /\ c # d /\ sse[c].pc # "none" /\ sse[d].pc # "none") =>
            sse[c].connectionId # sse[d].connectionId

\* C10 (as claimed): POST /message is answered, for any frame and in any state of the
\* registry, with HTTP 202 and the body {received: true}.
C10_MessageAnswered202 ==
    \A i \in 1..Len(messages) :
        /\ messages[i].response.status = 202
        /\ messages[i].response.body = Obj(<<P("received", Bool(TRUE))>>)

\* C10 (amended): POST /message is answered, for any frame and in any state of the
\* registry, with HTTP 202 and the body {received: true} in the revision with the
\* connection registry (part_000) and with HTTP 200 and no body in the two earlier
\* revisions (server.js); in every revision the endpoint makes no call on the Notion
\* client and leaves the registry, the stream connections and the POST /mcp requests
\* as they are.
C10_MessageAcknowledgedWithoutDispatch ==
    /\ [](\A i \in 1..Len(messages) :
            IF variant = V3
            THEN /\ messages[i].response.status = 202
                 /\ messages[i].response.body = Obj(<<P("received", Bool(TRUE))>>)
            ELSE /\ messages[i].response.status = 200
                 /\ messages[i].response.body = Undefined)
    /\ [][Len(messages') > Len(messages) =>
            /\ Len(messages') = Len(messages) + 1
            /\ UNCHANGED <<notionCalls, sseConnections, sse, mcp>>]_vars

C10_Witness ==
    /\ variant = V3
    /\ DOMAIN sseConnections # {}
    /\ \E i \in 1..Len(messages) :
        /\ Get(messages[i].frame, "method") = Str("tools/call")
        /\ messages[i].response.status = 202

\* C11: when NOTION_API_KEY is absent or empty at startup the process exits with a
\* non-zero status at the check of the key: it never creates the Notion client, never
\* listens and never serves a request.
C11_NoKeyNoServer ==
    proc.NOTION_API_KEY \in {Undefined, Str("")} =>
        /\ ~proc.listening
        /\ ~proc.notion
        /\ proc.pc \in {"start", "exited"}
        /\ (proc.pc = "exited" => proc.exitCode # Alive /\ proc.exitCode # 0)
        /\ \A r \in 1..MaxReqs : ~Used(r)
        /\ \A c \in 1..MaxConns : sse[c].pc = "none"
        /\ messages = <<>>
        /\ notionCalls = <<>>

C11_Witness ==
    /\ proc.NOTION_API_KEY = Str("")
    /\ proc.pc = "exited"
    /\ proc.exitCode = 1

\* C12: every tools/list request, whatever else was requested before or is in flight,
\* is answered with the same catalog: six tools, in the order notion_search,
\* notion_create_page, notion_get_page, notion_update_page, notion_list_databases,
\* notion_query_database, with the required fields query; parent_id, title; page_id;
\* page_id, properties; none; database_id; and it makes no call on the Notion client.
C12_ListToolsStableCatalog ==
    \A r \in 1..MaxReqs :
        (Used(r) /\ MethodOf(r) = Str("tools/list")) =>
            LET tools == Get(Get(mcp[r].responses[1].body, "result"), "tools").items
                required(i) == Get(Get(tools[i], "inputSchema"), "required")
            IN  /\ Len(mcp[r].responses) = 1
                /\ mcp[r].responses[1].status = 200
                /\ [i \in 1..Len(tools) |-> Get(tools[i], "name")] =
                     << Str("notion_search"), Str("notion_create_page"),
                        Str("notion_get_page"), Str("notion_update_page"),
                        Str("notion_list_databases"), Str("notion_query_database") >>
                /\ [i \in 1..Len(tools) |-> required(i)] =
                     << Arr(<<Str("query")>>),
                        Arr(<<Str("parent_id"), Str("title")>>),
                        Arr(<<Str("page_id")>>),
                        Arr(<<Str("page_id"), Str("properties")>>),
                        Undefined,
                        Arr(<<Str("database_id")>>) >>
                /\ CallsOf(r) = {}
                /\ \A q \in 1..MaxReqs :
                    (Used(q) /\ MethodOf(q) = Str("tools/list")) =>
                        Get(mcp[q].responses[1].body, "result")
                          = Get(mcp[r].responses[1].body, "result")

C12_Witness ==
    \E r, q \in 1..MaxReqs :
        /\ r < q
        /\ MethodOf(r) = Str("tools/call")
        /\ CallsOf(r) # {}
        /\ MethodOf(q) = Str("tools/list")
        /\ Len(Get(Get(mcp[q].responses[1].body, "result"), "tools").items) = 6
        /\ Len(notionCalls) = 1

\* C13 (as claimed): every opened stream connection is bound to a handler (MCP server)
\* instance of its own: no two stream connections share an instance.
C13_FreshServerPerConnection ==
    \A c, d \in 1..MaxConns :
        (c # d /\ sse[c].pc # "none" /\ sse[d].pc # "none") =>
            sse[c].server # sse[d].server

\* request r threw outside the dispatcher's try block: its body is missing, or it is
\* a tools/call without a params object
FaultOf(r) ==
    IF ~CanRead(mcp[r].request)
    THEN "Cannot read properties of undefined (reading 'method')"
    ELSE IF MethodOf(r) = Str("tools/call") /\ ~CanRead(ParamsOf(r))
    THEN "Cannot destructure property 'name' of 'request.params' as it is undefined."
    ELSE ""

\* C14 (as claimed): a POST /mcp request that faults outside the dispatcher's try
\* block (a tools/call without params, a request whose body is missing) gets exactly
\* one response, a JSON-RPC error object with code -32603 and the fault's message.
C14_FaultBecomesInternalError ==
    \A r \in 1..MaxReqs :
        (Used(r) /\ FaultOf(r) # "") =>
            /\ Len(mcp[r].responses) = 1
            /\ Get(Get(mcp[r].responses[1].body, "error"), "code") = Num(-32603)
            /\ Get(Get(mcp[r].responses[1].body, "error"), "message") = Str(FaultOf(r))

\* every call in the log belongs to one request: it was built from that request's own
\* name and arguments, and its outcome is the one that request answered with, under
\* that request's own id
C15_OwnCallOwnOutcome ==
    \A i \in 1..Len(notionCalls) :
        LET call == notionCalls[i]
            slot == mcp[call.req]
            start == callToolHandlerStart(slot.request)
        IN  /\ Get(slot.request, "method") = Str("tools/call")
            /\ start.k = "call" /\ call.op = start.op /\ call.params = start.params
            /\ CallsOf(call.req) = {i}
            /\ call.outcome = Pending => slot.pc = "awaiting" /\ slot.responses = <<>>
            /\ call.outcome # Pending =>
                /\ slot.pc = "done"
                /\ Len(slot.responses) = 1
                /\ Get(slot.responses[1].body, "id") = Get(slot.request, "id")
                /\ Get(slot.responses[1].body, "result") =
                     IF call.outcome.k = "resolved"
                     THEN SuccessResult(call.outcome.payload)
                     ELSE ErrorResult(call.outcome.message)

\* no deduplication: every request waiting for the client has a call of its own
C15_NoDeduplication ==
    \A r \in 1..MaxReqs :
        mcp[r].pc = "awaiting" =>
            \E i \in CallsOf(r) : notionCalls[i].outcome = Pending

\* a step changes one request at most, never one that was answered, and changes a
\* call's outcome only together with the request the call belongs to
C15_StepTouchesOneRequest ==
    /\ \A r \in 1..MaxReqs : mcp[r].pc = "done" => mcp'[r] = mcp[r]
    /\ \A r, q \in 1..MaxReqs : (r # q /\ mcp'[r] # mcp[r]) => mcp'[q] = mcp[q]
    /\ Len(notionCalls') >= Len(notionCalls)
    /\ \A i \in 1..Len(notionCalls) :
        notionCalls'[i] # notionCalls[i] =>
            /\ mcp[notionCalls[i].req].pc = "awaiting"
            /\ mcp'[notionCalls[i].req].pc = "done"
            /\ notionCalls'[i].req = notionCalls[i].req

\* C15: concurrent tools/call requests are independent: with calls completing in any
\* order each response carries its own request's id and the result or error of its own
\* upstream call, every request makes a call of its own even when an identical call is
\* in flight, and the failure of one request leaves the others as they were.
C15_ConcurrentCallsIndependent ==
    /\ [](C15_OwnCallOwnOutcome /\ C15_NoDeduplication)
    /\ [][C15_StepTouchesOneRequest]_vars

\* two identical calls from requests with different ids; the later one has failed and
\* been answered while the earlier one is still in flight
C15_Witness ==
    /\ mcp[1].pc = "awaiting" /\ mcp[2].pc = "done"
    /\ IdOf(1) # IdOf(2)
    /\ Len(notionCalls) = 2
    /\ notionCalls[1].op = notionCalls[2].op
    /\ notionCalls[1].params = notionCalls[2].params
    /\ notionCalls[1].outcome = Pending
    /\ notionCalls[2].outcome = Rejected("Not found")
    /\ Get(mcp[2].responses[1].body, "id") = IdOf(2)

====
